---- MODULE Spec2Model ----
(***************************************************************************)
(* learn_egui: a winit + egui + wgpu counter demo (src/src/main.rs).       *)
(*                                                                         *)
(* The state is the counter (CounterApp), the graphics state (GfxState:    *)
(* stored size and surface configuration), the wgpu surface the            *)
(* configuration is bound to, the input egui_winit has collected, the      *)
(* pending redraw request of the window and the state of the event loop.   *)
(* Every action is one call of the closure given to event_loop.run, for    *)
(* one event, from its first line to its return.                           *)
(*                                                                         *)
(* calls is the list of calls the latest handler made on the egui, wgpu    *)
(* and event-loop objects, in program order; lastEvent is the event it     *)
(* was called for.  window.request_redraw() is recorded by                 *)
(* redraw_requested.  nInc and nDec count the "+1" and "-1" clicks the UI  *)
(* has seen since the latest reset click.                                  *)
(***************************************************************************)
EXTENDS Integers, Sequences, FiniteSets, TLC

VARIABLES
    count,              \* CounterApp.count (i32)
    label,              \* the number shown by ui.label, as formatted text
    gfx,                \* GfxState: [size, surface_config]
    surface,            \* the wgpu surface: [status, config]
    inner_size,         \* window.inner_size(): the window's physical size
    egui_input,         \* buttons clicked since the last take_egui_input
    redraw_requested,   \* window.request_redraw() called, not yet delivered
    loop,               \* "Idle" | "Closed" | "Exited" | "Panicked"
    lastEvent,          \* the event of the latest closure call
    calls,              \* the calls that closure call made, in order
    nInc,               \* "+1" clicks handled since the latest reset
    nDec,               \* "-1" clicks handled since the latest reset
    surface_caps,       \* surface.get_capabilities(&adapter)
    textures,           \* the textures egui_renderer holds
    missing             \* textures the latest draw used and did not find

vars == <<count, label, gfx, surface, inner_size, egui_input,
          redraw_requested, loop, lastEvent, calls, nInc, nDec,
          surface_caps, textures, missing>>

(***************************************************************************)
(* Bounds of the model.                                                    *)
(***************************************************************************)
\* Clicks on "+1" and "-1" the environment makes between two reset clicks.
MaxClicks == 2

\* Length of the longest list of present modes a surface reports.
MaxModes == 2

\* Physical sizes the window system reports (a zero dimension: minimized).
Sizes == { [width |-> 900, height |-> 600], [width |-> 800, height |-> 500],
           [width |-> 0, height |-> 400], [width |-> 900, height |-> 0] }

(***************************************************************************)
(* CounterApp                                                              *)
(***************************************************************************)
I32Max == 2147483647
I32Min == -I32Max - 1

Buttons == {"-1", "+1", "reset"}

\* A frame's pointer input clicks at most one button.
Clicks == {{}} \cup {{b} : b \in Buttons}

\* a + b leaves the range of i32.
OverflowsI32(a, b) ==
    \/ b > 0 /\ a > I32Max - b
    \/ b < 0 /\ a < I32Min - b

\* The two's complement result of an a + b that leaves the range of i32.
WrapI32(a, b) ==
    IF b > 0
    THEN I32Min + (a - (I32Max - b)) - 1
    ELSE I32Max - ((I32Min - b) - a) + 1

\* `a += b` on i32: the exact sum when it fits; on overflow a build with
\* overflow checks panics and a build without them wraps.
AddI32(a, b) ==
    IF ~OverflowsI32(a, b)
    THEN {[value |-> a + b, panic |-> FALSE]}
    ELSE {[value |-> WrapI32(a, b), panic |-> FALSE],
          [value |-> a, panic |-> TRUE]}

DigitChars == <<"0", "1", "2", "3", "4", "5", "6", "7", "8", "9">>

RECURSIVE Digits(_)
Digits(n) ==
    IF n < 10 THEN <<DigitChars[n + 1]>>
    ELSE Append(Digits(n \div 10), DigitChars[(n % 10) + 1])

\* The decimal digits of -n for a negative i32 n, computed without
\* negating n (the negation of i32::MIN is not an i32).
AbsDigits(n) ==
    LET q == -(n \div 10) - (IF n % 10 = 0 THEN 0 ELSE 1)
        r == (10 - (n % 10)) % 10
    IN  IF q = 0 THEN <<DigitChars[r + 1]>>
        ELSE Append(Digits(q), DigitChars[r + 1])

\* format!("{}", n) for an i32: an optional sign and the decimal digits.
FormatI32(n) == IF n < 0 THEN <<"-">> \o AbsDigits(n) ELSE Digits(n)

\* The mutation of self.count by the three buttons, in their order in the
\* panel: "-1", "+1", reset.
uiDec(c, clicked) ==
    IF "-1" \in clicked THEN AddI32(c, -1) ELSE {[value |-> c, panic |-> FALSE]}

uiInc(c, clicked) ==
    IF "+1" \in clicked THEN AddI32(c, 1) ELSE {[value |-> c, panic |-> FALSE]}

\* Mutant of uiReset: the reset button leaves the counter as it is.
uiResetKeeps(c, clicked) == c

uiReset(c, clicked) == IF "reset" \in clicked THEN 0 ELSE c

\* CounterApp::ui: the outcomes [count, label, panic] of building the panel
\* with the given buttons clicked.
ui(c, clicked) ==
    UNION { IF d.panic
            THEN {[count |-> d.value, label |-> <<>>, panic |-> TRUE]}
            ELSE { IF i.panic
                   THEN [count |-> i.value, label |-> <<>>, panic |-> TRUE]
                   ELSE [count |-> uiReset(i.value, clicked),
                         label |-> FormatI32(uiReset(i.value, clicked)),
                         panic |-> FALSE]
                   : i \in uiInc(d.value, clicked) }
            : d \in uiDec(c, clicked) }

(***************************************************************************)
(* GfxState                                                                *)
(***************************************************************************)
Max(a, b) == IF a >= b THEN a ELSE b

is_srgb(f) == f \in {"Bgra8UnormSrgb", "Rgba8UnormSrgb"}

\* formats.iter().copied().find(|f| f.is_srgb()).unwrap_or(formats[0])
surface_format(caps) ==
    LET srgb == {i \in DOMAIN caps.formats : is_srgb(caps.formats[i])} IN
    IF srgb # {}
    THEN caps.formats[CHOOSE i \in srgb : \A j \in srgb : i <= j]
    ELSE caps.formats[1]

\* Mutant of present_mode: Fifo is preferred to Mailbox.
present_modeFifoFirst(caps) ==
    IF \E i \in DOMAIN caps.present_modes : caps.present_modes[i] = "Fifo"
    THEN "Fifo"
    ELSE IF \E i \in DOMAIN caps.present_modes : caps.present_modes[i] = "Mailbox"
         THEN "Mailbox"
         ELSE caps.present_modes[1]

\* Mailbox if supported, else Fifo if supported, else the first mode.
present_mode(caps) ==
    IF \E i \in DOMAIN caps.present_modes : caps.present_modes[i] = "Mailbox"
    THEN "Mailbox"
    ELSE IF \E i \in DOMAIN caps.present_modes : caps.present_modes[i] = "Fifo"
         THEN "Fifo"
         ELSE caps.present_modes[1]

\* The surface capabilities the adapter reports.
CapsChoices ==
    { [formats |-> <<"Bgra8Unorm", "Bgra8UnormSrgb">>,
       present_modes |-> <<"Fifo", "Mailbox">>,
       alpha_modes |-> <<"Opaque">>],
      [formats |-> <<"Rgba8Unorm">>,
       present_modes |-> <<"Immediate", "Fifo">>,
       alpha_modes |-> <<"PreMultiplied", "Opaque">>] }

\* Mutant of newConfigSize: the configuration takes the size unclamped.
newConfigSizeUnclamped(size) == [width |-> size.width, height |-> size.height]

\* The width and height written into the configuration by GfxState::new.
newConfigSize(size) ==
    [width |-> Max(size.width, 1), height |-> Max(size.height, 1)]

\* GfxState::new: the stored size is the window's inner size as reported.
new(size, caps) ==
    [size |-> size,
     surface_config |->
        [usage |-> "RENDER_ATTACHMENT",
         format |-> surface_format(caps),
         width |-> newConfigSize(size).width,
         height |-> newConfigSize(size).height,
         present_mode |-> present_mode(caps),
         alpha_mode |-> caps.alpha_modes[1],
         desired_maximum_frame_latency |-> 2]]

\* Mutant of resizeGuard: `||` in place of `&&`.
resizeGuardEither(new_size) == new_size.width > 0 \/ new_size.height > 0

\* The guard of GfxState::resize.
resizeGuard(new_size) == new_size.width > 0 /\ new_size.height > 0

\* Mutant of resize: the height of the configuration is not updated.
resizeWidthOnly(g, new_size) ==
    IF new_size.width > 0 /\ new_size.height > 0
    THEN [gfx |-> [size |-> new_size,
                   surface_config |->
                      [g.surface_config EXCEPT !.width = new_size.width]],
          configure |-> TRUE]
    ELSE [gfx |-> g, configure |-> FALSE]

\* Mutant of resize: the size is stored, the configuration is not updated.
resizeSizeOnly(g, new_size) ==
    IF new_size.width > 0 /\ new_size.height > 0
    THEN [gfx |-> [size |-> new_size, surface_config |-> g.surface_config],
          configure |-> TRUE]
    ELSE [gfx |-> g, configure |-> FALSE]

\* GfxState::resize: the new GfxState and whether surface.configure ran.
resize(g, new_size) ==
    IF resizeGuard(new_size)
    THEN [gfx |-> [size |-> new_size,
                   surface_config |->
                      [g.surface_config EXCEPT !.width = new_size.width,
                                               !.height = new_size.height]],
          configure |-> TRUE]
    ELSE [gfx |-> g, configure |-> FALSE]

\* surface.configure(&device, &config): binds the surface to the device.
configure(config) == [status |-> "Good", config |-> config]

\* The surface after a call of gfx.resize with outcome r.
Reconfigured(r) == IF r.configure THEN configure(r.gfx.surface_config) ELSE surface

ConfigureCall(r) == IF r.configure THEN <<"configure">> ELSE <<>>

(***************************************************************************)
(* The event loop                                                          *)
(***************************************************************************)
\* event_loop.run is still calling the closure.  elwt.exit() asks the loop
\* to stop ("Closed"); winit still delivers the events of the iteration
\* under way to the closure, then Event::LoopExiting, and run returns.
Running == loop \in {"Idle", "Closed"}

\* The ids of the windows whose events the loop can receive.
WindowIds == {"this", "other"}

\* Mutant of windowEventArm: the arm has no guard on the window id.
windowEventArmAny(window_id) == TRUE

\* The guard of the first match arm: window_id == window.id().
windowEventArm(window_id) == window_id = "this"

\* Mutant of exit: the close request does not stop the loop.
exitIgnored(l) == l

\* elwt.exit()
exit(l) == "Closed"

\* A WindowEvent of the given kind for the given window.
WindowEvent(window_id, kind) == [window |-> window_id, kind |-> kind]

\* The calls of GfxState::new, made before the loop starts.
InitCalls == <<"create_surface", "request_adapter", "request_device",
               "get_capabilities", "configure">>

Init ==
    /\ count = 0
    /\ label = <<>>
    /\ inner_size \in Sizes
    /\ surface_caps \in CapsChoices
    /\ gfx = new(inner_size, surface_caps)
    /\ textures = {}
    /\ missing = {}
    /\ surface = configure(gfx.surface_config)
    /\ egui_input = {}
    /\ redraw_requested = FALSE
    /\ loop = "Idle"
    /\ lastEvent = [window |-> "none", kind |-> "Init"]
    /\ calls = InitCalls
    /\ nInc = 0
    /\ nDec = 0

\* The arm `_ => {}` of the outer match: the event changes nothing.
Fallthrough(event) ==
    /\ lastEvent' = event
    /\ calls' = <<>>
    /\ UNCHANGED <<count, label, gfx, surface, inner_size, egui_input,
                   redraw_requested, loop, nInc, nDec,
                   surface_caps, textures, missing>>

\* if response.repaint { window.request_redraw() }
RepaintResponse == redraw_requested' \in {redraw_requested, TRUE}

\* WindowEvent::CloseRequested
CloseRequested ==
    /\ Running
    /\ \E window_id \in WindowIds :
          IF windowEventArm(window_id)
          THEN /\ RepaintResponse
               /\ loop' = exit(loop)
               /\ lastEvent' = WindowEvent(window_id, "CloseRequested")
               /\ calls' = <<"on_window_event", "exit">>
               /\ UNCHANGED <<count, label, gfx, surface, inner_size,
                              egui_input, nInc, nDec,
                   surface_caps, textures, missing>>
          ELSE Fallthrough(WindowEvent(window_id, "CloseRequested"))

\* WindowEvent::Resized(size).  For this window the size is the window's
\* new physical size.
Resized ==
    /\ Running
    /\ \E window_id \in WindowIds :
          IF windowEventArm(window_id)
          THEN \E new_size \in Sizes :
               LET r == resize(gfx, new_size) IN
               /\ RepaintResponse
               /\ inner_size' = (IF window_id = "this" THEN new_size ELSE inner_size)
               /\ gfx' = r.gfx
               /\ surface' = Reconfigured(r)
               /\ lastEvent' = WindowEvent(window_id, "Resized")
               /\ calls' = <<"on_window_event">> \o ConfigureCall(r)
               /\ UNCHANGED <<count, label, egui_input, loop, nInc, nDec,
                   surface_caps, textures, missing>>
          ELSE Fallthrough(WindowEvent(window_id, "Resized"))

\* WindowEvent::ScaleFactorChanged: gfx.resize(window.inner_size()).
ScaleFactorChanged ==
    /\ Running
    /\ \E window_id \in WindowIds :
          IF windowEventArm(window_id)
          THEN LET r == resize(gfx, inner_size) IN
               /\ RepaintResponse
               /\ inner_size' = inner_size
               /\ gfx' = r.gfx
               /\ surface' = Reconfigured(r)
               /\ lastEvent' = WindowEvent(window_id, "ScaleFactorChanged")
               /\ calls' = <<"on_window_event">> \o ConfigureCall(r)
               /\ UNCHANGED <<count, label, egui_input, loop, nInc, nDec,
                   surface_caps, textures, missing>>
          ELSE Fallthrough(WindowEvent(window_id, "ScaleFactorChanged"))

\* The calls of a frame up to the acquisition of the surface texture.
FrameHead == <<"on_window_event", "take_egui_input", "begin_frame", "ui",
               "end_frame", "tessellate", "update_texture", "free_texture",
               "get_current_texture">>

\* Mutant of FrameTail: the render pass and the present are made twice.
FrameTailTwice ==
    <<"create_view", "create_command_encoder", "update_buffers",
      "begin_render_pass", "render", "submit", "present",
      "begin_render_pass", "render", "submit", "present",
      "handle_platform_output">>

\* Mutant of FrameTail: the frame is presented before it is drawn.
FrameTailPresentFirst ==
    <<"create_view", "create_command_encoder", "update_buffers",
      "submit", "present", "begin_render_pass", "render",
      "handle_platform_output">>

\* The calls of a frame after a successful acquisition.
FrameTail == <<"create_view", "create_command_encoder", "update_buffers",
               "begin_render_pass", "render", "submit", "present",
               "handle_platform_output">>

\* surface.get_current_texture() succeeds on a surface that is configured
\* and has not been invalidated since.
get_current_texture == surface.status = "Good"

\* Mutant of acquireFailed: the acquisition error is unwrapped.
acquireFailedPanics == [r |-> resize(gfx, gfx.size), loop |-> "Panicked"]

\* The Err arm of get_current_texture: gfx.resize(gfx.size); return.
\* The closure returns normally: the loop goes on as it was.
acquireFailed == [r |-> resize(gfx, gfx.size), loop |-> loop]

\* Mutant of take_egui_input: the collected input is copied, not moved.
take_egui_inputCopies(input) == [taken |-> input, left |-> input]

\* egui_state.take_egui_input(&window): the collected input is moved out
\* of the egui_winit state and handed to the frame.
take_egui_input(input) == [taken |-> input, left |-> {}]

\* The textures of this user interface: only egui's font atlas.  ui() shows
\* a heading, three buttons and a label, and no image.
TexIds == {"font"}

\* ctx.end_frame(): the texture deltas of the frame and the textures its
\* shapes use.  egui puts the font atlas in textures_delta.set in the first
\* frame, and again when new glyphs are added to it; the atlas is never in
\* textures_delta.free.
end_frame(tex) ==
    { [set |-> s, free |-> {}, used |-> {"font"}] :
        s \in {t \in SUBSET TexIds : "font" \in tex \cup t} }

\* The two loops over textures_delta: update_texture for every entry of
\* set, then free_texture for every id of free.
applyTexturesDelta(tex, out) == (tex \cup out.set) \ out.free

\* Mutant of texturesAtDraw: the deltas are applied after the render pass.
texturesAtDrawStale(tex, out) == tex

\* The textures egui_renderer holds when render() runs in the render pass:
\* both loops over textures_delta come before it.
texturesAtDraw(tex, out) == applyTexturesDelta(tex, out)

\* WindowEvent::RedrawRequested
RedrawRequested ==
    /\ Running
    /\ \E window_id \in WindowIds :
          IF windowEventArm(window_id)
          THEN /\ redraw_requested' \in BOOLEAN
               /\ lastEvent' = WindowEvent(window_id, "RedrawRequested")
               /\ egui_input' = take_egui_input(egui_input).left
               /\ UNCHANGED <<inner_size, surface_caps>>
               /\ \E o \in ui(count, take_egui_input(egui_input).taken) :
                     /\ count' = o.count
                     /\ IF o.panic
                        THEN /\ loop' = "Panicked"
                             /\ calls' = <<"on_window_event", "take_egui_input",
                                           "begin_frame", "ui">>
                             /\ UNCHANGED <<label, gfx, surface, nInc, nDec,
                                            textures, missing>>
                        ELSE /\ label' = o.label
                             /\ nInc' = IF "reset" \in egui_input THEN 0
                                        ELSE IF "+1" \in egui_input
                                             THEN nInc + 1 ELSE nInc
                             /\ nDec' = IF "reset" \in egui_input THEN 0
                                        ELSE IF "-1" \in egui_input
                                             THEN nDec + 1 ELSE nDec
                             /\ \E out \in end_frame(textures) :
                                   /\ textures' = applyTexturesDelta(textures, out)
                                   /\ missing' =
                                        IF get_current_texture
                                        THEN out.used \ texturesAtDraw(textures, out)
                                        ELSE missing
                             /\ IF get_current_texture
                                THEN /\ calls' = FrameHead \o FrameTail
                                     /\ UNCHANGED <<gfx, surface, loop>>
                                ELSE LET e == acquireFailed IN
                                     /\ gfx' = e.r.gfx
                                     /\ surface' = Reconfigured(e.r)
                                     /\ loop' = e.loop
                                     /\ calls' = FrameHead \o ConfigureCall(e.r)
          ELSE Fallthrough(WindowEvent(window_id, "RedrawRequested"))

\* Any other WindowEvent (pointer, keyboard): egui_winit collects it and
\* the inner match does nothing.  At most one click gesture completes
\* between two frames.
InputEvent ==
    /\ Running
    /\ \E window_id \in WindowIds :
          IF windowEventArm(window_id)
          THEN \E clicked \in Clicks :
               /\ clicked # {} => egui_input = {}
               /\ clicked \cap {"-1", "+1"} # {} => nInc + nDec < MaxClicks
               /\ RepaintResponse
               /\ egui_input' = egui_input \cup clicked
               /\ lastEvent' = WindowEvent(window_id, "Input")
               /\ calls' = <<"on_window_event">>
               /\ UNCHANGED <<count, label, gfx, surface, inner_size, loop,
                              nInc, nDec,
                   surface_caps, textures, missing>>
          ELSE Fallthrough(WindowEvent(window_id, "Input"))

\* Mutant of aboutToWaitRedraw: no redraw is requested when none is pending.
aboutToWaitRedrawIfRequested(requested) == requested

\* window.request_redraw() in the AboutToWait arm: made whatever the state
\* of the pending request.
aboutToWaitRedraw(requested) == TRUE

\* Event::AboutToWait
AboutToWait ==
    /\ Running
    /\ redraw_requested' = aboutToWaitRedraw(redraw_requested)
    /\ lastEvent' = [window |-> "none", kind |-> "AboutToWait"]
    /\ calls' = <<>>
    /\ UNCHANGED <<count, label, gfx, surface, inner_size, egui_input,
                   loop, nInc, nDec,
                   surface_caps, textures, missing>>

\* After elwt.exit() the loop delivers Event::LoopExiting (`_ => {}`) and
\* event_loop.run returns Ok.
LoopExiting ==
    /\ loop = "Closed"
    /\ loop' = "Exited"
    /\ lastEvent' = [window |-> "none", kind |-> "LoopExiting"]
    /\ calls' = <<>>
    /\ UNCHANGED <<count, label, gfx, surface, inner_size, egui_input,
                   redraw_requested, nInc, nDec,
                   surface_caps, textures, missing>>

\* The window system invalidates the surface (the swap chain is outdated or
\* lost): get_current_texture fails until the surface is configured again.
SurfaceOutdated ==
    /\ Running
    /\ surface.status = "Good"
    /\ surface' = [surface EXCEPT !.status = "Outdated"]
    /\ UNCHANGED <<count, label, gfx, inner_size, egui_input, redraw_requested,
                   loop, lastEvent, calls, nInc, nDec,
                   surface_caps, textures, missing>>

Next ==
    \/ CloseRequested
    \/ Resized
    \/ ScaleFactorChanged
    \/ RedrawRequested
    \/ InputEvent
    \/ AboutToWait
    \/ LoopExiting
    \/ SurfaceOutdated

Spec == Init /\ [][Next]_vars

\* Counter values at and between the limits of i32.
CounterStarts == {I32Min, 0, I32Max}

\* The running program with its counter at a value of CounterStarts: the
\* window has the size main asks for, frames have been drawn, the loop has
\* just handled AboutToWait.  nInc and nDec count from this state on.
CounterInit ==
    /\ count \in CounterStarts
    /\ label = FormatI32(count)
    /\ inner_size = [width |-> 900, height |-> 600]
    /\ surface_caps = CHOOSE caps \in CapsChoices : Len(caps.formats) = 2
    /\ gfx = new(inner_size, surface_caps)
    /\ textures = {"font"}
    /\ missing = {}
    /\ surface = configure(gfx.surface_config)
    /\ egui_input = {}
    /\ redraw_requested = TRUE
    /\ loop = "Idle"
    /\ lastEvent = [window |-> "none", kind |-> "AboutToWait"]
    /\ calls = <<>>
    /\ nInc = 0
    /\ nDec = 0

\* The event loop from the counter values of CounterStarts.
CounterSpec == CounterInit /\ [][Next]_vars

\* wgpu::PresentMode values a surface may list.
PresentModes == {"Mailbox", "Fifo", "Immediate", "FifoRelaxed"}

\* The non-empty lists of distinct present modes of at most MaxModes modes.
ModeLists ==
    { s \in UNION { [1..n -> PresentModes] : n \in 1..MaxModes } :
        \A i, j \in DOMAIN s : i # j => s[i] # s[j] }

\* The state after construction for a surface that reports any list of
\* ModeLists, with a window of the size main asks for.
CapsInit ==
    /\ count = 0
    /\ label = <<>>
    /\ inner_size = [width |-> 900, height |-> 600]
    /\ surface_caps \in { [formats |-> <<"Bgra8UnormSrgb">>,
                           present_modes |-> modes,
                           alpha_modes |-> <<"Opaque">>] : modes \in ModeLists }
    /\ gfx = new(inner_size, surface_caps)
    /\ textures = {}
    /\ missing = {}
    /\ surface = configure(gfx.surface_config)
    /\ egui_input = {}
    /\ redraw_requested = FALSE
    /\ loop = "Idle"
    /\ lastEvent = [window |-> "none", kind |-> "Init"]
    /\ calls = InitCalls
    /\ nInc = 0
    /\ nDec = 0

\* The event loop for every list of present modes of ModeLists.
CapsSpec == CapsInit /\ [][Next]_vars

\* The calls of main and GfxState::new whose result is unwrapped with
\* .expect(message), in the order they are made, with the message (here
\* in English).
Fallible ==
    << [call |-> "EventLoop::new", message |-> "creating the event loop failed"],
       [call |-> "WindowBuilder::build", message |-> "creating the window failed"],
       [call |-> "create_surface", message |-> "creating the Surface failed"],
       [call |-> "request_adapter", message |-> "no suitable GPU adapter found"],
       [call |-> "request_device", message |-> "creating the device failed"] >>

\* The calls of main up to event_loop.run.
StartupCalls == <<"EventLoop::new", "WindowBuilder::build">> \o InitCalls

\* Mutant of expectFailed: the failure is ignored and main goes on to the
\* loop.
expectIgnored == "Idle"

\* .expect(message) on an Err or a None: the thread panics with the message
\* and main ends before event_loop.run.
expectFailed == "InitFailed"

\* The state main ends in when one of the fallible calls fails: the calls
\* up to the failing one were made, the diagnostic is its message, and no
\* GfxState, surface configuration or renderer exists.
InitFailure ==
    /\ \E k \in DOMAIN Fallible :
          /\ calls = SubSeq(StartupCalls, 1, k)
          /\ lastEvent = [window |-> "none", kind |-> Fallible[k].message]
    /\ loop = expectFailed
    /\ count = 0
    /\ label = <<>>
    /\ inner_size = [width |-> 900, height |-> 600]
    /\ surface_caps = "none"
    /\ gfx = "none"
    /\ surface = "none"
    /\ textures = {}
    /\ missing = {}
    /\ egui_input = {}
    /\ redraw_requested = FALSE
    /\ nInc = 0
    /\ nDec = 0

\* The program from the start of main: initialization succeeds or one of
\* its fallible calls fails.
StartupSpec == (Init \/ InitFailure) /\ [][Next]_vars

\* The delivery of the RedrawRequested the window asked for.
RedrawDelivery ==
    /\ redraw_requested
    /\ RedrawRequested
    /\ lastEvent'.window = "this"

\* ControlFlow::Poll: the loop never blocks, so every iteration ends with
\* AboutToWait; winit delivers a requested redraw; a loop asked to exit
\* exits.
FairSpec ==
    /\ Spec
    /\ WF_vars(AboutToWait)
    /\ WF_vars(RedrawDelivery)
    /\ WF_vars(LoopExiting)

(***************************************************************************)
(* Properties                                                              *)
(***************************************************************************)
HasCall(cs, c) == \E i \in DOMAIN cs : cs[i] = c

ZeroSized(s) == s.width = 0 \/ s.height = 0

\* The step is a call of the closure for this window's event of that kind.
Handled(kind) == lastEvent' = WindowEvent("this", kind) /\ ~SurfaceOutdated

\* The number a formatted label reads as.
DigitValue(ch) == CHOOSE d \in 0..9 : DigitChars[d + 1] = ch

RECURSIVE DigitsValue(_)
DigitsValue(s) ==
    IF s = <<>> THEN 0
    ELSE 10 * DigitsValue(SubSeq(s, 1, Len(s) - 1)) + DigitValue(s[Len(s)])

LabelValue(s) == IF s[1] = "-" THEN -DigitsValue(Tail(s)) ELSE DigitsValue(s)

C2_ZeroResizeIsNoOp ==
    [][ /\ ( /\ (Handled("Resized") \/ Handled("ScaleFactorChanged"))
             /\ ZeroSized(inner_size') )
           => ( /\ gfx' = gfx
                /\ surface' = surface
                /\ ~HasCall(calls', "configure") )
        /\ ( /\ Handled("RedrawRequested")
             /\ ZeroSized(gfx.size) )
           => ( /\ gfx' = gfx
                /\ surface' = surface
                /\ ~HasCall(calls', "configure") )
      ]_vars

C2_Witness ==
    /\ lastEvent = WindowEvent("this", "Resized")
    /\ inner_size = [width |-> 0, height |-> 400]
    /\ gfx.size = [width |-> 900, height |-> 600]
    /\ gfx.surface_config.width = 900
    /\ gfx.surface_config.height = 600
    /\ calls = <<"on_window_event">>

\* C3: gfx.resize with a positive width and height stores exactly that size
\* and width and height in the configuration, and configures the surface
\* with that configuration; the format, the present mode and the other
\* fields of the configuration never change after initialization.
C3_PositiveResizeIsExact ==
    [][ /\ ( /\ (Handled("Resized") \/ Handled("ScaleFactorChanged"))
             /\ ~ZeroSized(inner_size') )
           => ( /\ gfx'.size = inner_size'
                /\ gfx'.surface_config.width = inner_size'.width
                /\ gfx'.surface_config.height = inner_size'.height
                /\ surface' = [status |-> "Good", config |-> gfx'.surface_config]
                /\ HasCall(calls', "configure") )
        /\ gfx'.surface_config.format = gfx.surface_config.format
        /\ gfx'.surface_config.present_mode = gfx.surface_config.present_mode
        /\ gfx'.surface_config.alpha_mode = gfx.surface_config.alpha_mode
        /\ gfx'.surface_config.usage = gfx.surface_config.usage
      ]_vars

C3_Witness ==
    /\ lastEvent = WindowEvent("this", "Resized")
    /\ inner_size = [width |-> 800, height |-> 500]
    /\ gfx.size = [width |-> 800, height |-> 500]
    /\ surface.config.width = 800
    /\ surface.config.height = 500
    /\ surface.config.present_mode = "Mailbox"
    /\ HasCall(calls, "configure")

\* A frame whose acquisition of the surface texture failed.
FrameSkipped ==
    /\ lastEvent = WindowEvent("this", "RedrawRequested")
    /\ HasCall(calls, "get_current_texture")
    /\ ~HasCall(calls, "present")

C5_FailureReconfigures ==
    [][ ( /\ Handled("RedrawRequested")
          /\ surface.status # "Good" )
        => ( /\ HasCall(calls', "configure")
             /\ surface'.status = "Good"
             /\ Cardinality({i \in DOMAIN calls' : calls'[i] = "get_current_texture"}) = 1
             /\ ~HasCall(calls', "begin_render_pass")
             /\ ~HasCall(calls', "submit")
             /\ ~HasCall(calls', "present") )
      ]_vars

\* C6: the stored configuration and the configuration the surface was last
\* configured with have a positive width and a positive height.
C6_ConfigIsPositive ==
    /\ gfx.surface_config.width > 0
    /\ gfx.surface_config.height > 0
    /\ surface.config.width > 0
    /\ surface.config.height > 0

C6_Witness ==
    /\ gfx.size = [width |-> 0, height |-> 400]
    /\ inner_size = [width |-> 900, height |-> 0]
    /\ surface.config.width = 1
    /\ surface.config.height = 400

\* C7 as stated: the width and height of the configuration always equal the
\* window's physical size.
C7_ConfigMatchesWindow ==
    /\ gfx.surface_config.width = inner_size.width
    /\ gfx.surface_config.height = inner_size.height

\* C7 as amended: the width and height of the configuration, stored and
\* bound to the surface, equal the window's physical size whenever that
\* size has a positive width and a positive height.
C7_ConfigMatchesPositiveWindow ==
    ~ZeroSized(inner_size)
    => /\ gfx.surface_config.width = inner_size.width
       /\ gfx.surface_config.height = inner_size.height
       /\ surface.config.width = inner_size.width
       /\ surface.config.height = inner_size.height

C7_Witness ==
    /\ lastEvent = WindowEvent("this", "ScaleFactorChanged")
    /\ inner_size = [width |-> 800, height |-> 500]
    /\ gfx.surface_config.width = 800
    /\ gfx.surface_config.height = 500
    /\ HasCall(calls, "configure")

\* C8 as stated: a close request for this window makes the loop Closed, and
\* in Closed no event renders, configures the surface or changes the
\* counter or the graphics state.
C8_ClosedHandlesNothing ==
    [][ /\ Handled("CloseRequested") => loop' = "Closed"
        /\ (loop = "Closed" /\ ~SurfaceOutdated)
           => ( /\ ~HasCall(calls', "render")
                /\ ~HasCall(calls', "configure")
                /\ count' = count
                /\ gfx' = gfx )
      ]_vars

\* C8 as amended: a close request for this window makes the loop Closed
\* from any state in which the closure is called; the loop never goes back
\* from Closed to Idle; and once event_loop.run has ended nothing happens.
C8_ClosedIsFinal ==
    [][ /\ Handled("CloseRequested") => loop' = "Closed"
        /\ loop = "Closed" => loop' # "Idle"
        /\ loop \notin {"Exited", "Panicked"}
      ]_vars

C8_Witness ==
    /\ loop = "Closed"
    /\ lastEvent = WindowEvent("this", "RedrawRequested")
    /\ HasCall(calls, "present")

\* C9: an event of another window makes no call at all (none to
\* egui_winit), requests no redraw and leaves the counter, the label, the
\* graphics state, the surface, the collected input and the loop unchanged.
C9_ForeignEventIgnored ==
    [][ (lastEvent'.window = "other" /\ ~SurfaceOutdated)
        => ( /\ calls' = <<>>
             /\ UNCHANGED <<count, label, gfx, surface, inner_size,
                            egui_input, redraw_requested, loop, nInc, nDec,
                   surface_caps, textures, missing>> )
      ]_vars

C9_Witness ==
    /\ lastEvent = WindowEvent("other", "CloseRequested")
    /\ loop = "Idle"
    /\ ~redraw_requested
    /\ calls = <<>>

\* C10: every AboutToWait leaves a redraw requested; and whenever the loop
\* is Idle, a redraw is requested then or later, or the loop leaves Idle.
C10_ContinuousRepaint ==
    /\ [][ (lastEvent'.kind = "AboutToWait" /\ ~SurfaceOutdated)
           => redraw_requested' ]_vars
    /\ [](loop = "Idle" => <>(redraw_requested \/ loop # "Idle"))

C10_Witness ==
    /\ lastEvent.kind = "AboutToWait"
    /\ redraw_requested
    /\ ZeroSized(inner_size)
    /\ surface.status = "Outdated"
    /\ loop = "Idle"

\* How many times the call c occurs in the calls cs.
Count(cs, c) == Cardinality({i \in DOMAIN cs : cs[i] = c})

\* Every call a of cs comes before every call b of cs.
Before(cs, a, b) ==
    \A i, j \in DOMAIN cs : (cs[i] = a /\ cs[j] = b) => i < j

\* The calls that render: the render pass, the submission and the present.
RenderCalls == {"begin_render_pass", "render", "submit", "present"}

\* C11: only the handling of a RedrawRequested of this window renders, and
\* it renders at most once: the render pass, the submission and the present
\* occur in the calls of no other event, and at most once in the calls of a
\* redraw.  So the presented frames are never more than the redraws handled.
C11_RenderOnlyOnRedraw ==
    /\ (\E c \in RenderCalls : HasCall(calls, c))
          => lastEvent = WindowEvent("this", "RedrawRequested")
    /\ \A c \in RenderCalls : Count(calls, c) <= 1

C11_Witness ==
    /\ lastEvent = WindowEvent("this", "RedrawRequested")
    /\ Count(calls, "present") = 1
    /\ Count(calls, "render") = 1
    /\ nInc = 2
    /\ redraw_requested

\* C12: in every frame the loops that apply textures_delta.set and
\* textures_delta.free come before the render pass and its draw, never
\* during or after them, and a frame that draws has run both loops; the
\* draw finds every texture it uses in the renderer.
C12_TexturesBeforeDraw ==
    /\ \A t \in {"update_texture", "free_texture"} :
          /\ \A d \in {"begin_render_pass", "render"} : Before(calls, t, d)
          /\ HasCall(calls, "render") => HasCall(calls, t)
    /\ missing = {}

C12_Witness ==
    /\ HasCall(calls, "render")
    /\ Before(calls, "free_texture", "begin_render_pass")
    /\ textures = {"font"}
    /\ missing = {}
    /\ label = <<"0">>

\* The pipeline stage a call belongs to.
StageOf(c) ==
    CASE c \in {"begin_frame", "ui", "end_frame"} -> "layout"
      [] c = "tessellate" -> "tessellate"
      [] c \in {"update_texture", "free_texture", "update_buffers"} -> "upload"
      [] c \in {"begin_render_pass", "render"} -> "draw"
      [] c \in {"submit", "present"} -> "present"
      [] OTHER -> "none"

\* The stages the calls cs go through, in order: a stage is listed again
\* when the calls come back to it.
RECURSIVE Stages(_)
Stages(cs) ==
    IF cs = <<>> THEN <<>>
    ELSE LET front == Stages(SubSeq(cs, 1, Len(cs) - 1))
             st == StageOf(cs[Len(cs)])
         IN  IF st = "none" \/ (front # <<>> /\ front[Len(front)] = st)
             THEN front
             ELSE Append(front, st)

FiveStages == <<"layout", "tessellate", "upload", "draw", "present">>

\* C13 as stated: every RedrawRequested of this window goes through the five
\* stages in order and leaves the loop Idle.
C13_EveryRedrawRunsFiveStages ==
    [][ Handled("RedrawRequested")
        => (Stages(calls') = FiveStages /\ loop' = "Idle") ]_vars

\* C13 amended: a RedrawRequested of this window goes through layout,
\* tessellate, upload, draw, present in that order, each once, when the
\* surface texture is acquired; through layout, tessellate, upload only
\* when the acquisition fails; and through layout only when ui panics.  The
\* loop is left as it was, Idle or Closed, unless ui panicked.
C13_RedrawStagesInOrder ==
    [][ Handled("RedrawRequested")
        => IF loop' = "Panicked"
           THEN Stages(calls') = <<"layout">>
           ELSE /\ loop' = loop
                /\ Stages(calls') = IF get_current_texture
                                    THEN FiveStages
                                    ELSE SubSeq(FiveStages, 1, 3)
      ]_vars

C13_Witness ==
    /\ lastEvent = WindowEvent("this", "RedrawRequested")
    /\ Stages(calls) = FiveStages
    /\ loop = "Idle"
    /\ egui_input = {}
    /\ count = -1
    /\ nDec = 1
    /\ label = <<"-", "1">>

\* C14 as stated: every RedrawRequested of this window hands the platform
\* output of its frame to the windowing layer, after the submission and
\* the present.
C14_PlatformOutputHandedBack ==
    [][ Handled("RedrawRequested")
        => /\ Count(calls', "handle_platform_output") = 1
           /\ Before(calls', "submit", "handle_platform_output")
           /\ Before(calls', "present", "handle_platform_output")
      ]_vars

\* m is n + 1: an i32 m can be n + 1 only for n below i32::MAX.
IsSucc(n, m) == n < I32Max /\ m = n + 1

\* m is n - 1: an i32 m can be n - 1 only for n above i32::MIN.
IsPred(n, m) == n > I32Min /\ m = n - 1

\* C15 as stated: at every counter value n a frame with "+1" clicked ends
\* with the counter n + 1 and one with "-1" clicked with n - 1, and the
\* frame does not fail.
C15_CounterHasNoBounds ==
    [][ Handled("RedrawRequested")
        => /\ loop' # "Panicked"
           /\ "+1" \in egui_input => IsSucc(count, count')
           /\ "-1" \in egui_input => IsPred(count, count')
      ]_vars

\* C16 as stated: every step leaves the counter at its old value, the old
\* value + 1, the old value - 1 or 0, and only the handling of a
\* RedrawRequested of this window changes it.
C16_CounterChangesOnlyInFrames ==
    [][ /\ \/ count' \in {count, 0}
           \/ IsSucc(count, count')
           \/ IsPred(count, count')
        /\ count' # count => Handled("RedrawRequested")
      ]_vars

\* The modes of a list.
Range(s) == {s[i] : i \in DOMAIN s}

\* C17: for every non-empty list of supported present modes, the present
\* mode of the stored configuration and of the configured surface is
\* Mailbox when the list has it, else Fifo when the list has it, else the
\* first mode of the list; it is a mode of the list; and it stays so
\* through every later reconfiguration.
C17_PresentModeSelection ==
    LET modes == surface_caps.present_modes
        chosen == gfx.surface_config.present_mode
    IN  /\ chosen = IF "Mailbox" \in Range(modes) THEN "Mailbox"
                    ELSE IF "Fifo" \in Range(modes) THEN "Fifo"
                    ELSE modes[1]
        /\ chosen \in Range(modes)
        /\ surface.config.present_mode = chosen

C17_Witness ==
    /\ surface_caps.present_modes = <<"FifoRelaxed", "Immediate">>
    /\ gfx.surface_config.present_mode = "FifoRelaxed"
    /\ lastEvent = WindowEvent("this", "Resized")
    /\ HasCall(calls, "configure")
    /\ gfx.size = [width |-> 800, height |-> 500]

\* The diagnostics of the initialization failures.
Diagnostics == {Fallible[k].message : k \in DOMAIN Fallible}

C19_SizeIsConfigSize ==
    /\ gfx.size = [width |-> gfx.surface_config.width,
                   height |-> gfx.surface_config.height]
    /\ gfx.size = [width |-> surface.config.width,
                   height |-> surface.config.height]

\* The counter a frame leaves when it handles the clicks of clicked on the
\* counter n.
CountAfter(n, clicked) ==
    IF "reset" \in clicked THEN 0
    ELSE IF "+1" \in clicked THEN n + 1
    ELSE IF "-1" \in clicked THEN n - 1
    ELSE n

\* C20: a frame whose acquisition of the surface texture fails has taken
\* the collected input (none is left to replay), has built the UI (the
\* counter and the label carry the click, once), and has run both loops
\* over textures_delta, all before the acquisition was attempted; every
\* frame, skipped or drawn, leaves the same counter for the same click,
\* and a frame without a click leaves the counter as it was.
C20_SkippedFrameIsNotRolledBack ==
    [][ Handled("RedrawRequested")
        => /\ count' = CountAfter(count, egui_input)
           /\ egui_input' = {}
           /\ ~get_current_texture
                => /\ label' = FormatI32(count')
                   /\ textures' = (textures \cup TexIds)
                   /\ \A c \in {"take_egui_input", "ui", "end_frame",
                                "update_texture", "free_texture"} :
                         /\ Count(calls', c) = 1
                         /\ Before(calls', c, "get_current_texture")
                   /\ \A c \in RenderCalls : ~HasCall(calls', c)
      ]_vars

C20_Witness ==
    /\ FrameSkipped
    /\ egui_input = {}
    /\ count = 1
    /\ nInc = 1
    /\ label = <<"1">>
    /\ textures = {"font"}
    /\ loop = "Idle"

====
